---- MODULE Spec2Model ----
(***************************************************************************)
(* Model of the Slider carousel of src/slider/mySlider.js: the class       *)
(* Slider (items, selection, "slide" event, interval timer) and the three  *)
(* plugins pluginPrevious, pluginNext and pluginControl.                   *)
(*                                                                         *)
(* DOM elements are represented by their position: this.items is a         *)
(* function 0..N-1 -> BOOLEAN (TRUE = class "slider__item--selected"),     *)
(* the indicator buttons likewise.  A missing element (null / undefined)   *)
(* is Null.  The JavaScript values NaN and -0 only ever reach an array     *)
(* index and the test idx >= 0: NaN is the number NaN below (it indexes    *)
(* nothing and NaN >= 0 is false), -0 is 0.                                *)
(***************************************************************************)
EXTENDS Integers, Sequences, FiniteSets, TLC

\* ---- bounds ------------------------------------------------------------
MaxN == 3          \* largest image list
Margin == 1        \* slidesTo arguments range over -Margin .. N-1+Margin
MaxTimers == 2     \* setInterval calls in one behaviour
MaxTicks == MaxN + 1  \* ticks counted after one start()
MaxPlugins == 2    \* plugin registrations in one behaviour

\* ---- values ------------------------------------------------------------
Null == -1         \* querySelector found nothing
NotFound == -1     \* Array.prototype.indexOf found nothing
NaN == -100        \* x % 0

PluginNames == {"control", "previous", "next"}

VARIABLES
  N,          \* this.opts.images.length = this.items.length
  items,      \* this.items: position -> has class slider__item--selected
  btns,       \* pluginControl's sliderBtns: position -> --selected
  plugins,    \* plugin -> the sets of listeners its action has attached
  timer,      \* this.timer (0 = undefined)
  live,       \* interval timers that are set and not cleared
  ids,        \* number of setInterval calls so far (ids are 1, 2, ...)
  \* -- observation of the last operation --
  op,         \* [name, arg] of the last operation
  pre,        \* getSelectedItemIndex() before the last operation
  events,     \* "slide" events the last operation dispatched
  fault,      \* exception the last handler raised ("none" if it returned)
  prevented,  \* the last handler called e.preventDefault()
  navLive,    \* timer "live"/"stopped" when the last operation called
              \* slidesTo, "none" if it did not
  preRunning, \* a timer was live before the last operation
  regArgs,    \* arguments of the last registerPlugins call
  steps,      \* render/action steps of the last registerPlugins call
  \* -- observation of the operations before --
  autoplay,   \* "Running" after start(), "Stopped" after stop()
  pair,       \* [kind, base]: slidesPrev()/slidesNext() calls back to back
  starts,     \* start() calls in a row
  nextRun,    \* [base, count]: slidesNext() calls in a row
  hover,      \* [phase, k]: mouseover on indicator k, mouseout, tick
  tickRun     \* [on, base, count]: ticks since start()

domVars == <<N, items, btns, plugins>>
timerVars == <<timer, live, ids>>
obsVars == <<op, pre, events, fault, prevented, navLive, preRunning,
            regArgs, steps>>
histVars == <<autoplay, pair, starts, nextRun, tickRun, hover>>
vars == <<domVars, timerVars, obsVars, histVars>>

\* ---- JavaScript helpers --------------------------------------------------
\* a % n: the sign of the dividend, NaN for n = 0
JsRem(a, n) ==
  IF n = 0 THEN NaN
  ELSE IF a >= 0 THEN a % n
  ELSE 0 - ((0 - a) % n)

Min(S) == CHOOSE x \in S : \A y \in S : x <= y

\* querySelector('...--selected') over a list of elements: the first match
FirstSelected(f) ==
  IF \E i \in DOMAIN f : f[i]
  THEN Min({i \in DOMAIN f : f[i]})
  ELSE Null

\* ---- Slider ---------------------------------------------------------------
\* render(): one item per image, the first one selected
render(n) == [i \in 0..(n - 1) |-> i = 0]

getSelectedItem(its) == FirstSelected(its)

getSelectedItemIndex(its) ==
  LET e == getSelectedItem(its)
  IN IF e = Null THEN NotFound ELSE e

\* pluginControl's "slide" listener on the indicator buttons b
\* result: [btns, failed], failed = the listener raised a TypeError
SlideListener(b, idx) ==
  IF idx >= 0
  THEN LET selected == FirstSelected(b)
       IN IF selected = Null
          THEN [btns |-> b, failed |-> TRUE]
          ELSE LET b1 == [b EXCEPT ![selected] = FALSE]
               IN IF idx \in DOMAIN b1
                  THEN [btns |-> [b1 EXCEPT ![idx] = TRUE], failed |-> FALSE]
                  ELSE [btns |-> b1, failed |-> TRUE]
  ELSE [btns |-> b, failed |-> FALSE]

\* the k "slide" listeners on the container, one after the other; an
\* exception in one is reported and the next one still runs
RECURSIVE SlideListeners(_, _, _)
SlideListeners(k, b, idx) ==
  IF k = 0 THEN [btns |-> b, failed |-> FALSE]
  ELSE LET r1 == SlideListener(b, idx)
           r2 == SlideListeners(k - 1, r1.btns, idx)
       IN [btns |-> r2.btns, failed |-> r1.failed \/ r2.failed]

\* d is [items, btns, listeners, events], listeners = the number of
\* "slide" listeners
\* dispatchEvent(new CustomEvent("slide", {detail: {index: idx}}))
dispatchSlide(d, idx) ==
  LET r == SlideListeners(d.listeners, d.btns, idx)
  IN [d EXCEPT !.btns = r.btns,
               !.events = Append(@, [index |-> idx,
                                     seen |-> getSelectedItemIndex(d.items),
                                     failed |-> r.failed])]

\* slidesTo that leaves the old item selected
slidesTo_keepSelected(d, idx) ==
  LET i2 == IF idx \in DOMAIN d.items THEN [d.items EXCEPT ![idx] = TRUE]
            ELSE d.items
  IN dispatchSlide([d EXCEPT !.items = i2], idx)

\* slidesTo that returns early when idx is already the selected index
slidesTo_skipSame(d, idx) ==
  IF idx = getSelectedItemIndex(d.items) THEN d
  ELSE LET selected == getSelectedItem(d.items)
           i1 == IF selected # Null THEN [d.items EXCEPT ![selected] = FALSE]
                 ELSE d.items
           i2 == IF idx \in DOMAIN i1 THEN [i1 EXCEPT ![idx] = TRUE] ELSE i1
       IN dispatchSlide([d EXCEPT !.items = i2], idx)

slidesTo(d, idx) ==
  LET selected == getSelectedItem(d.items)
      i1 == IF selected # Null THEN [d.items EXCEPT ![selected] = FALSE]
            ELSE d.items
      i2 == IF idx \in DOMAIN i1 THEN [i1 EXCEPT ![idx] = TRUE] ELSE i1
  IN dispatchSlide([d EXCEPT !.items = i2], idx)

\* slidesPrev without the + length
slidesPrev_noBias(d) ==
  LET len == Cardinality(DOMAIN d.items)
  IN slidesTo(d, JsRem(getSelectedItemIndex(d.items) - 1, len))

slidesPrev(d) ==
  LET len == Cardinality(DOMAIN d.items)
  IN slidesTo(d, JsRem(len + getSelectedItemIndex(d.items) - 1, len))

\* slidesNext with the arithmetic of slidesPrev
slidesNext_asPrev(d) ==
  LET len == Cardinality(DOMAIN d.items)
  IN slidesTo(d, JsRem(len + getSelectedItemIndex(d.items) - 1, len))

\* slidesNext without the remainder
slidesNext_noWrap(d) ==
  slidesTo(d, getSelectedItemIndex(d.items) + 1)

slidesNext(d) ==
  LET len == Cardinality(DOMAIN d.items)
  IN slidesTo(d, JsRem(getSelectedItemIndex(d.items) + 1, len))

\* stop that clears nothing
stop_noClear(t) == t

\* start that does not stop first
start_noStop(t) ==
  LET id == t.ids + 1
  IN [timer |-> id, live |-> t.live \cup {id}, ids |-> id]

\* t is [timer, live, ids]
stop(t) == [t EXCEPT !.live = @ \ {t.timer}]

start(t) ==
  LET s == stop(t)
      id == s.ids + 1
  IN [timer |-> id, live |-> s.live \cup {id}, ids |-> id]

\* one cycle elapses: the callback of every live timer runs once
RECURSIVE RunCallbacks(_, _)
RunCallbacks(k, d) ==
  IF k = 0 THEN d ELSE RunCallbacks(k - 1, slidesNext(d))

\* the timer as a handler finds it when it calls slidesTo
NavState(t) == IF t.live = {} THEN "stopped" ELSE "live"

\* ---- plugins ---------------------------------------------------------------
\* listeners as functions of the timer t and the DOM d; the result is
\* [tm, dom, nav, fault, prevented]

\* the click listener calling slidesPrev before stop
previousClick_navFirst(t, d) ==
  LET d1 == slidesPrev(d)
      t2 == start(stop(t))
  IN [tm |-> t2, dom |-> d1, nav |-> NavState(t),
      fault |-> "ReferenceError", prevented |-> FALSE]

\* pluginPrevious: click listener; e is not defined in it
previousClick(t, d) ==
  LET t1 == stop(t)
      d1 == slidesPrev(d)
      t2 == start(t1)
  IN [tm |-> t2, dom |-> d1, nav |-> NavState(t1),
      fault |-> "ReferenceError", prevented |-> FALSE]

\* the click listener without the restart
nextClick_noRestart(t, d) ==
  LET t1 == stop(t)
      d1 == slidesNext(d)
  IN [tm |-> t1, dom |-> d1, nav |-> NavState(t1),
      fault |-> "none", prevented |-> TRUE]

\* pluginNext: click listener
nextClick(t, d) ==
  LET t1 == stop(t)
      d1 == slidesNext(d)
      t2 == start(t1)
  IN [tm |-> t2, dom |-> d1, nav |-> NavState(t1),
      fault |-> "none", prevented |-> TRUE]

\* the mouseover listener without stop
controlMouseover_noStop(t, d, idx) ==
  IF idx >= 0
  THEN [tm |-> t, dom |-> slidesTo(d, idx), nav |-> NavState(t),
        fault |-> "none", prevented |-> FALSE]
  ELSE [tm |-> t, dom |-> d, nav |-> "none",
        fault |-> "none", prevented |-> FALSE]

\* pluginControl: mouseover listener, idx = indexOf(e.target)
controlMouseover(t, d, idx) ==
  IF idx >= 0
  THEN LET d1 == slidesTo(d, idx)
           t1 == stop(t)
       IN [tm |-> t1, dom |-> d1, nav |-> NavState(t),
           fault |-> "none", prevented |-> FALSE]
  ELSE [tm |-> t, dom |-> d, nav |-> "none",
        fault |-> "none", prevented |-> FALSE]

\* pluginControl: mouseout listener
controlMouseout(t, d) ==
  [tm |-> start(t), dom |-> d, nav |-> "none",
   fault |-> "none", prevented |-> FALSE]

\* two listeners of one event, r1 then r2 (r2 computed from r1.tm, r1.dom)
Then(r1, r2) ==
  [tm |-> r2.tm, dom |-> r2.dom,
   nav |-> IF "live" \in {r1.nav, r2.nav} THEN "live"
           ELSE IF "stopped" \in {r1.nav, r2.nav} THEN "stopped"
           ELSE "none",
   fault |-> IF r1.fault # "none" THEN r1.fault ELSE r2.fault,
   prevented |-> r1.prevented \/ r2.prevented]

Idle(t, d) ==
  [tm |-> t, dom |-> d, nav |-> "none", fault |-> "none",
   prevented |-> FALSE]

\* the k click listeners on the first .slider__previous
RECURSIVE previousClicks(_, _, _)
previousClicks(k, t, d) ==
  IF k = 0 THEN Idle(t, d)
  ELSE LET r == previousClick(t, d)
       IN Then(r, previousClicks(k - 1, r.tm, r.dom))

\* the k click listeners on the first .slider__next
RECURSIVE nextClicks(_, _, _)
nextClicks(k, t, d) ==
  IF k = 0 THEN Idle(t, d)
  ELSE LET r == nextClick(t, d)
       IN Then(r, nextClicks(k - 1, r.tm, r.dom))

\* the k mouseover listeners on the first .slider__control
RECURSIVE controlMouseovers(_, _, _, _)
controlMouseovers(k, t, d, idx) ==
  IF k = 0 THEN Idle(t, d)
  ELSE LET r == controlMouseover(t, d, idx)
       IN Then(r, controlMouseovers(k - 1, r.tm, r.dom, idx))

\* the k mouseout listeners on the first .slider__control
RECURSIVE controlMouseouts(_, _, _)
controlMouseouts(k, t, d) ==
  IF k = 0 THEN Idle(t, d)
  ELSE LET r == controlMouseout(t, d)
       IN Then(r, controlMouseouts(k - 1, r.tm, r.dom))

\* registerPlugins calling action before render
RegisterOne_actionFirst(st, p) ==
  LET s1 == [st EXCEPT
               !.steps = Append(@, [step |-> "action", plugin |-> p]),
               !.plugins = IF p \in st.markup THEN [@ EXCEPT ![p] = @ + 1] ELSE @]
  IN [s1 EXCEPT
        !.steps = Append(@, [step |-> "render", plugin |-> p]),
        !.markup = @ \cup {p},
        !.btns = IF p = "control" /\ p \notin st.markup
                 THEN render(st.n) ELSE @]

\* registerPlugins, one plugin p: render and appendChild, then action;
\* action attaches one more set of listeners to the first element with the
\* class of p, when there is one; the indicators pluginControl works on are
\* those of the first .slider__control, as its first render made them.
\* st is [n, btns, plugins, markup, steps], n = images.length
RegisterOne(st, p) ==
  LET s1 == [st EXCEPT
               !.steps = Append(@, [step |-> "render", plugin |-> p]),
               !.markup = @ \cup {p},
               !.btns = IF p = "control" /\ p \notin st.markup
                        THEN render(st.n) ELSE @]
  IN [s1 EXCEPT
        !.steps = Append(@, [step |-> "action", plugin |-> p]),
        !.plugins = IF p \in s1.markup THEN [@ EXCEPT ![p] = @ + 1] ELSE @]

\* ---- state as records ------------------------------------------------------
HasControl == plugins["control"] > 0
HasPlugin(p) == plugins[p] > 0

\* listeners of plugin p: one set for every time its action found its markup
Count(p) == plugins[p]

\* listeners attached so far, over all plugins
Attached == plugins["control"] + plugins["previous"] + plugins["next"]

Dom == [items |-> items, btns |-> btns, listeners |-> Count("control"),
        events |-> <<>>]
Tm == [timer |-> timer, live |-> live, ids |-> ids]

Sel == getSelectedItemIndex(items)

NoPair == [kind |-> "none", base |-> NotFound]
NoRun == [base |-> NotFound, count |-> 0]
NoTicks == [on |-> FALSE, base |-> NotFound, count |-> 0]
NoHover == [phase |-> "none", k |-> NotFound]

\* the observation every operation leaves behind
Observe(name, arg, d, f, p) ==
  /\ op' = [name |-> name, arg |-> arg]
  /\ pre' = Sel
  /\ events' = d.events
  /\ fault' = f
  /\ prevented' = p
  /\ preRunning' = (live # {})

\* what else the operation leaves to observe: the timer at its slidesTo
\* call, its registerPlugins steps, the hover it is part of
Track(nav, a, s, h) ==
  /\ navLive' = nav
  /\ regArgs' = a
  /\ steps' = s
  /\ hover' = h

SetDom(d) == items' = d.items /\ btns' = d.btns
SetTm(t) == timer' = t.timer /\ live' = t.live /\ ids' = t.ids

Init ==
  /\ N \in 0..MaxN
  /\ items = render(N)
  /\ btns = <<>>
  /\ plugins = [p \in PluginNames |-> 0]
  /\ timer = 0
  /\ live = {}
  /\ ids = 0
  /\ op = [name |-> "new", arg |-> 0]
  /\ pre = NotFound
  /\ events = <<>>
  /\ fault = "none"
  /\ prevented = FALSE
  /\ navLive = "none"
  /\ preRunning = FALSE
  /\ regArgs = <<>>
  /\ steps = <<>>
  /\ hover = NoHover
  /\ autoplay = "Stopped"
  /\ pair = NoPair
  /\ starts = 0
  /\ nextRun = NoRun
  /\ tickRun = NoTicks

\* ---- operations --------------------------------------------------------------
Args == (0 - Margin)..(N - 1 + Margin)

SlidesTo(idx) ==
  LET d == slidesTo(Dom, idx)
  IN /\ SetDom(d)
     /\ Observe("slidesTo", idx, d, "none", FALSE)
     /\ Track(NavState(Tm), <<>>, <<>>, NoHover)
     /\ starts' = 0
     /\ nextRun' = NoRun
     /\ pair' = NoPair
     /\ tickRun' = NoTicks
     /\ UNCHANGED <<N, plugins, timerVars, autoplay>>

SlidesPrev ==
  LET d == slidesPrev(Dom)
  IN /\ SetDom(d)
     /\ Observe("slidesPrev", 0, d, "none", FALSE)
     /\ Track(NavState(Tm), <<>>, <<>>, NoHover)
     /\ starts' = 0
     /\ nextRun' = NoRun
     /\ pair' = IF pair.kind = "next" THEN [pair EXCEPT !.kind = "nextprev"]
                ELSE [kind |-> "prev", base |-> Sel]
     /\ tickRun' = NoTicks
     /\ UNCHANGED <<N, plugins, timerVars, autoplay>>

SlidesNext ==
  LET d == slidesNext(Dom)
  IN /\ SetDom(d)
     /\ Observe("slidesNext", 0, d, "none", FALSE)
     /\ Track(NavState(Tm), <<>>, <<>>, NoHover)
     /\ starts' = 0
     /\ nextRun' = IF nextRun.count = 0 \/ nextRun.count >= N
                   THEN [base |-> Sel, count |-> 1]
                   ELSE [nextRun EXCEPT !.count = @ + 1]
     /\ pair' = IF pair.kind = "prev" THEN [pair EXCEPT !.kind = "prevnext"]
                ELSE [kind |-> "next", base |-> Sel]
     /\ tickRun' = NoTicks
     /\ UNCHANGED <<N, plugins, timerVars, autoplay>>

Start ==
  /\ ids < MaxTimers
  /\ SetTm(start(Tm))
  /\ Observe("start", 0, Dom, "none", FALSE)
  /\ Track("none", <<>>, <<>>, NoHover)
  /\ autoplay' = "Running"
  /\ starts' = starts + 1
  /\ nextRun' = NoRun
  /\ pair' = NoPair
  /\ tickRun' = [on |-> TRUE, base |-> Sel, count |-> 0]
  /\ UNCHANGED <<domVars>>

Stop ==
  /\ SetTm(stop(Tm))
  /\ Observe("stop", 0, Dom, "none", FALSE)
  /\ Track("none", <<>>, <<>>, NoHover)
  /\ autoplay' = "Stopped"
  /\ starts' = 0
  /\ nextRun' = NoRun
  /\ pair' = NoPair
  /\ tickRun' = NoTicks
  /\ UNCHANGED <<domVars>>

\* this.cycle milliseconds pass: every live interval timer fires once
Cycle ==
  LET d == RunCallbacks(Cardinality(live), Dom)
  IN /\ SetDom(d)
     /\ Observe("cycle", 0, d, "none", FALSE)
     /\ Track(IF live = {} THEN "none" ELSE "live", <<>>, <<>>,
              IF hover.phase = "over" THEN hover
              ELSE IF hover.phase = "out"
                   THEN [hover EXCEPT !.phase = "ticked"]
                   ELSE NoHover)
     /\ starts' = 0
     /\ nextRun' = NoRun
     /\ pair' = NoPair
     /\ tickRun' = IF tickRun.on /\ tickRun.count < MaxTicks
                   THEN [tickRun EXCEPT !.count = @ + 1]
                   ELSE NoTicks
     /\ UNCHANGED <<N, plugins, timerVars, autoplay>>

\* registerPlugins(...ps): plugins.forEach
RECURSIVE RegisterEach(_, _)
RegisterEach(ps, st) ==
  IF ps = <<>> THEN st
  ELSE RegisterEach(Tail(ps), RegisterOne(st, Head(ps)))

\* any list of plugins, repeated and already registered ones included
PluginLists ==
  UNION {[1..k -> PluginNames] : k \in 0..(MaxPlugins - Attached)}

RegisterPlugins(ps) ==
  LET st == RegisterEach(ps, [n |-> N, btns |-> btns, plugins |-> plugins,
                              markup |-> {q \in PluginNames : HasPlugin(q)},
                              steps |-> <<>>])
  IN /\ btns' = st.btns
     /\ plugins' = st.plugins
     /\ Observe("registerPlugins", Len(ps), Dom, "none", FALSE)
     /\ Track("none", ps, st.steps, NoHover)
     /\ starts' = 0
     /\ nextRun' = NoRun
     /\ pair' = NoPair
     /\ tickRun' = tickRun
     /\ UNCHANGED <<N, items, timerVars, autoplay>>

\* plugin.action(slider) called directly: listeners only
PluginAction(p) ==
  /\ Attached < MaxPlugins
  /\ plugins' = IF HasPlugin(p) THEN [plugins EXCEPT ![p] = @ + 1]
                ELSE plugins
  /\ Observe("action", 0, Dom, "none", FALSE)
  /\ Track("none", <<>>, <<[step |-> "action", plugin |-> p]>>, NoHover)
  /\ starts' = 0
  /\ nextRun' = NoRun
  /\ pair' = NoPair
  /\ tickRun' = tickRun
  /\ UNCHANGED <<N, items, btns, timerVars, autoplay>>

\* pluginPrevious: click on the first .slider__previous
ClickPrevious ==
  /\ HasPlugin("previous")
  /\ ids + Count("previous") <= MaxTimers
  /\ LET r == previousClicks(Count("previous"), Tm, Dom)
     IN /\ SetDom(r.dom)
        /\ SetTm(r.tm)
        /\ Observe("clickPrevious", 0, r.dom, r.fault, r.prevented)
        /\ Track(r.nav, <<>>, <<>>, NoHover)
        /\ autoplay' = "Running"
        /\ starts' = 0
        /\ nextRun' = NoRun
        /\ pair' = NoPair
        /\ tickRun' = [on |-> TRUE, base |-> getSelectedItemIndex(r.dom.items),
                       count |-> 0]
        /\ UNCHANGED <<N, plugins>>

\* pluginNext: click on the first .slider__next
ClickNext ==
  /\ HasPlugin("next")
  /\ ids + Count("next") <= MaxTimers
  /\ LET r == nextClicks(Count("next"), Tm, Dom)
     IN /\ SetDom(r.dom)
        /\ SetTm(r.tm)
        /\ Observe("clickNext", 0, r.dom, r.fault, r.prevented)
        /\ Track(r.nav, <<>>, <<>>, NoHover)
        /\ autoplay' = "Running"
        /\ starts' = 0
        /\ nextRun' = NoRun
        /\ pair' = NoPair
        /\ tickRun' = [on |-> TRUE, base |-> getSelectedItemIndex(r.dom.items),
                       count |-> 0]
        /\ UNCHANGED <<N, plugins>>

\* pluginControl: mouseover inside the first .slider__control; k is the
\* position of the event target among the indicator buttons, NotFound for
\* another element
MouseOver(k) ==
  /\ HasPlugin("control")
  /\ LET r == controlMouseovers(Count("control"), Tm, Dom, k)
     IN /\ SetDom(r.dom)
        /\ SetTm(r.tm)
        /\ Observe("mouseover", k, r.dom, r.fault, r.prevented)
        /\ Track(r.nav, <<>>, <<>>,
                 IF k >= 0 THEN [phase |-> "over", k |-> k] ELSE NoHover)
        /\ autoplay' = IF k >= 0 THEN "Stopped" ELSE autoplay
        /\ starts' = 0
        /\ nextRun' = NoRun
        /\ pair' = NoPair
        /\ tickRun' = NoTicks
        /\ UNCHANGED <<N, plugins>>

\* pluginControl: mouseout of the first .slider__control
MouseOut ==
  /\ HasPlugin("control")
  /\ ids + Count("control") <= MaxTimers
  /\ LET r == controlMouseouts(Count("control"), Tm, Dom)
     IN /\ SetDom(r.dom)
        /\ SetTm(r.tm)
        /\ Observe("mouseout", 0, r.dom, r.fault, r.prevented)
        /\ Track(r.nav, <<>>, <<>>,
                 IF hover.phase = "over" THEN [hover EXCEPT !.phase = "out"]
                 ELSE NoHover)
        /\ autoplay' = "Running"
        /\ starts' = 0
        /\ nextRun' = NoRun
        /\ pair' = NoPair
        /\ tickRun' = [on |-> TRUE, base |-> Sel, count |-> 0]
        /\ UNCHANGED <<N, plugins>>

Next ==
  \/ \E idx \in Args : SlidesTo(idx)
  \/ SlidesPrev
  \/ SlidesNext
  \/ Start
  \/ Stop
  \/ Cycle
  \/ \E ps \in PluginLists : RegisterPlugins(ps)
  \/ \E p \in PluginNames : PluginAction(p)
  \/ ClickPrevious
  \/ ClickNext
  \/ \E k \in {NotFound} \cup (0..(N - 1)) : MouseOver(k)
  \/ MouseOut

Spec == Init /\ [][Next]_vars

\* ---- claims ------------------------------------------------------------------
Selected == {i \in DOMAIN items : items[i]}
InRange(i) == i \in 0..(N - 1)

\* C1: for N > 0, slidesTo(idx) with idx outside [0, N) leaves
\* getSelectedItemIndex() unchanged and dispatches no "slide" event.
C1_OutOfRangeIgnored ==
  (N > 0 /\ op.name = "slidesTo" /\ ~InRange(op.arg))
    => (Sel = pre /\ events = <<>>)

\* C2: for N > 0, in every reachable state exactly one item is selected and
\* getSelectedItemIndex() is in [0, N).
C2_ExactlyOneSelected ==
  N > 0 => (Cardinality(Selected) = 1 /\ InRange(Sel))

\* C3: for N > 0 and idx in [0, N), slidesTo(idx) leaves idx the one selected
\* item and dispatches exactly one "slide" event, with index idx.
C3_SlidesToSelects ==
  (N > 0 /\ op.name = "slidesTo" /\ InRange(op.arg))
    => /\ Selected = {op.arg}
       /\ Sel = op.arg
       /\ Len(events) = 1
       /\ events[1].index = op.arg

C3_Witness ==
  /\ N = 3 /\ op = [name |-> "slidesTo", arg |-> 2] /\ pre = 0
  /\ Sel = 2 /\ ~items[0]
  /\ Len(events) = 1 /\ events[1].index = 2

\* C4: at most one interval timer is live; after start() (also twice in a
\* row, also from a plugin handler) exactly one is, and one cycle makes at
\* most one automatic advance.
C4_OneTimer ==
  /\ Cardinality(live) <= 1
  /\ autoplay = "Running" => Cardinality(live) = 1
  /\ op.name = "cycle" => Len(events) <= 1

C4_Witness ==
  /\ starts = 2 /\ op.name = "start" /\ ids = 2
  /\ live = {2} /\ timer = 2

\* C5: once stop() has run, a passing cycle runs no slidesNext(): no "slide"
\* event and no change of selection until start() is called again.
C5_StopCancels ==
  /\ op.name = "stop" => live = {}
  /\ (op.name = "cycle" /\ autoplay = "Stopped")
       => (events = <<>> /\ Sel = pre)

C5_Witness ==
  /\ N > 0 /\ ids >= 1 /\ autoplay = "Stopped" /\ op.name = "cycle"
  /\ events = <<>> /\ live = {}

\* C6: while autoplay is running with N > 0, each cycle dispatches exactly
\* one "slide" event, and the k-th tick after start() with index i selected
\* carries (i + k) mod N.
C6_TickAdvances ==
  (N > 0 /\ op.name = "cycle" /\ autoplay = "Running")
    => /\ Len(events) = 1
       /\ events[1].index = (pre + 1) % N
       /\ Sel = events[1].index
       /\ tickRun.on
            => events[1].index = (tickRun.base + tickRun.count) % N

C6_Witness ==
  /\ N = 3 /\ op.name = "cycle" /\ autoplay = "Running"
  /\ tickRun = [on |-> TRUE, base |-> 2, count |-> 2]
  /\ Len(events) = 1 /\ events[1].index = 1

\* C7: for N > 0 and i in [0, N), N calls of slidesNext() in a row return
\* the selection to i.
C7_NextCycleClosure ==
  (N > 0 /\ op.name = "slidesNext" /\ nextRun.count = N
     /\ InRange(nextRun.base))
    => Sel = nextRun.base

C7_Witness ==
  /\ N = 3 /\ op.name = "slidesNext"
  /\ nextRun = [base |-> 1, count |-> 3] /\ Sel = 1

\* C8: for N > 0, from any index getSelectedItemIndex() can report,
\* slidesPrev() then slidesNext(), and slidesNext() then slidesPrev(),
\* restore that index.
C8_PrevNextInverse ==
  (N > 0 /\ pair.kind \in {"prevnext", "nextprev"}) => Sel = pair.base

\* C9: when a "slide" event is delivered, getSelectedItemIndex() equals the
\* index the event carries.
C9_ObserverSeesIndex ==
  N > 0 => \A i \in 1..Len(events) : events[i].seen = events[i].index

\* C10 as stated: slidesTo(idx) with idx the selected index changes nothing
\* and dispatches no "slide" event.
C10_SameIndexSilent ==
  (N > 0 /\ op.name = "slidesTo" /\ InRange(pre) /\ op.arg = pre)
    => (Sel = pre /\ events = <<>>)

\* C10 amended: slidesTo(idx) with idx the selected index leaves the
\* selection as it is and dispatches exactly one "slide" event, with index
\* idx.
C10_SameIndexNotifies ==
  (N > 0 /\ op.name = "slidesTo" /\ InRange(pre) /\ op.arg = pre)
    => /\ Sel = pre
       /\ Selected = {pre}
       /\ Len(events) = 1
       /\ events[1].index = pre
       /\ events[1].seen = pre

C10_Witness ==
  /\ N = 3 /\ op = [name |-> "slidesTo", arg |-> 1] /\ pre = 1
  /\ Sel = 1 /\ Len(events) = 1 /\ events[1].index = 1


NavOps == {"slidesTo", "slidesPrev", "slidesNext", "cycle"}
Marked == {i \in DOMAIN btns : btns[i]}

\* C11: with no images (N = 0) slidesTo, slidesPrev, slidesNext and a timer
\* tick each either dispatch no "slide" event and change nothing, or fail
\* with EmptyCarouselError.
C11_EmptyCarouselGuarded ==
  (N = 0 /\ op.name \in NavOps)
    => (events = <<>> \/ fault = "EmptyCarouselError")

\* C12: for N > 0 and every index getSelectedItemIndex() can return, -1
\* included, slidesPrev() passes (selectedIndex - 1 + N) mod N to slidesTo,
\* and that is in [0, N).
C12_PrevIndex ==
  (N > 0 /\ op.name = "slidesPrev")
    => /\ Len(events) = 1
       /\ events[1].index = (pre - 1 + N) % N
       /\ InRange(events[1].index)

C12_Witness ==
  /\ N = 3 /\ op.name = "slidesPrev" /\ pre = NotFound
  /\ Len(events) = 1 /\ events[1].index = 1

\* C13 as stated: in the previous click, the next click and the mouseover
\* on an indicator, no timer is live when the selection is changed.
C13_StoppedBeforeNav ==
  op.name \in {"clickPrevious", "clickNext", "mouseover"}
    => navLive # "live"

\* C13 amended: the two click listeners stop the timer before they change
\* the selection; the mouseover listener changes the selection with the
\* timer as it finds it and stops the timer afterwards, before it returns.
C13_StopAroundNav ==
  /\ op.name \in {"clickPrevious", "clickNext"} => navLive = "stopped"
  /\ (op.name = "mouseover" /\ op.arg >= 0)
       => /\ navLive = (IF preRunning THEN "live" ELSE "stopped")
          /\ live = {}

C13_Witness ==
  /\ N = 3 /\ op.name = "clickPrevious" /\ preRunning
  /\ navLive = "stopped" /\ pre = 0 /\ Sel = 2

\* C14: with pluginControl registered and N > 0, after a navigation the
\* indicator marked selected is the one at getSelectedItemIndex().
C14_IndicatorInSync ==
  (HasControl /\ N > 0 /\ events # <<>>) => FirstSelected(btns) = Sel

\* C15: mouseover on indicator k selects k and stops autoplay, cycles that
\* pass meanwhile advance nothing; the mouseout that follows starts
\* autoplay, and the next tick selects (k + 1) mod N.
C15_HoverThenResume ==
  /\ (op.name = "mouseover" /\ InRange(op.arg))
       => (Sel = op.arg /\ autoplay = "Stopped" /\ live = {})
  /\ (hover.phase = "over" /\ op.name = "cycle")
       => (events = <<>> /\ Sel = hover.k)
  /\ hover.phase = "out"
       => (autoplay = "Running" /\ Cardinality(live) = 1 /\ Sel = hover.k)
  /\ hover.phase = "ticked"
       => /\ Len(events) = 1
          /\ events[1].index = (hover.k + 1) % N
          /\ Sel = (hover.k + 1) % N

C15_Witness ==
  /\ N = 3 /\ hover = [phase |-> "ticked", k |-> 2]
  /\ op.name = "cycle" /\ Sel = 0

\* C16: a click on the previous control raises no error, moves the
\* selection from i to (i - 1 + N) mod N, leaves exactly one live timer and
\* calls preventDefault.
C16_PreviousClickCompletes ==
  (N > 0 /\ op.name = "clickPrevious")
    => /\ fault = "none"
       /\ prevented
       /\ Cardinality(live) = 1
       /\ InRange(pre) => Sel = (pre - 1 + N) % N

\* C17: registerPlugins(p1, ..., pk) runs render(p1), action(p1), ...,
\* render(pk), action(pk), in this order.
C17_RegisterOrder ==
  op.name = "registerPlugins"
    => /\ Len(regArgs) = op.arg
       /\ Len(steps) = 2 * Len(regArgs)
       /\ \A i \in 1..Len(regArgs) :
            /\ steps[2 * i - 1] = [step |-> "render", plugin |-> regArgs[i]]
            /\ steps[2 * i] = [step |-> "action", plugin |-> regArgs[i]]
       /\ \A i \in 1..Len(regArgs) : HasPlugin(regArgs[i])

C17_Witness ==
  /\ op.name = "registerPlugins"
  /\ regArgs = <<"control", "previous">>
  /\ Len(steps) = 4
  /\ steps[3] = [step |-> "render", plugin |-> "previous"]
  /\ plugins["control"] = 1 /\ plugins["previous"] = 1

\* C18: with pluginControl registered and N > 0, exactly one indicator is
\* marked selected in every reachable state and the "slide" listener never
\* fails.
C18_OneIndicator ==
  (HasControl /\ N > 0)
    => /\ Cardinality(Marked) = 1
       /\ \A i \in 1..Len(events) : ~events[i].failed

\* C19: after a click on the previous or next control or a mouseout of the
\* indicators exactly one timer is live, whatever was live before.
C19_HandlersStart ==
  op.name \in {"clickPrevious", "clickNext", "mouseout"}
    => /\ autoplay = "Running"
       /\ Cardinality(live) = 1
       /\ timer \in live

C19_Witness ==
  /\ op.name = "clickNext" /\ ~preRunning /\ autoplay = "Running"
  /\ ids = 1 /\ live = {1}

====
